---- MODULE Spec2Model ----
(***************************************************************************)
(* Model of the watchdog service registry: the gRPC handlers of            *)
(* WatchdogServer, the EntClient store wrapper they call, and the record   *)
(* store as constrained by the Ent schema of the Service entity.           *)
(*                                                                         *)
(* Handlers run concurrently, one per request.  A handler step is atomic   *)
(* up to and including one store call; handlers with two blocking points   *)
(* (UpdateService: read then write, CheckServiceHealth: read then probe)   *)
(* take two steps and other requests may run in between.                   *)
(*                                                                         *)
(* Strings of the program are TLA+ strings, except service ids on the      *)
(* wire, which are sequences of one-character strings so that              *)
(* strconv.ParseInt and fmt.Sprintf("%d") are computed digit by digit.     *)
(* Timestamps are whole seconds, the unit in which ListServices reports    *)
(* them (LastHeartbeat.Unix()).                                            *)
(***************************************************************************)
EXTENDS Integers, Sequences, FiniteSets, TLC

(***************************************************************************)
(* Bounds of the model.                                                    *)
(***************************************************************************)
\* the clock runs from 0 to MaxClock
MaxClock == 1
\* number of rows the database holds when the server starts
NumInit == 2
\* the auto-increment counter is not advanced beyond MaxId
MaxId == 4

\* Each client issues one request and keeps the response.  The requests of
\* two clients overlap when the second is issued before the first has
\* returned, and follow one another otherwise.
Clients == {"c1", "c2"}

(***************************************************************************)
(* The service type enumeration.                                           *)
(***************************************************************************)
\* api.ServiceType: the wire enumeration, by number
SERVICE_TYPE_UNSPECIFIED == 0
SERVICE_TYPE_HTTP == 1
SERVICE_TYPE_GRPC == 2
SERVICE_TYPE_DATABASE == 3
SERVICE_TYPE_CACHE == 4
SERVICE_TYPE_QUEUE == 5
SERVICE_TYPE_STORAGE == 6
SERVICE_TYPE_EXTERNAL_API == 7
SERVICE_TYPE_MICROSERVICE == 8
SERVICE_TYPE_OTHER == 9
SERVICE_TYPE_SYSTEMD == 10

\* the values the schema allows for the enum column "type"
TypeValues ==
  { "SERVICE_TYPE_UNSPECIFIED", "SERVICE_TYPE_HTTP", "SERVICE_TYPE_GRPC",
    "SERVICE_TYPE_DATABASE", "SERVICE_TYPE_CACHE", "SERVICE_TYPE_QUEUE",
    "SERVICE_TYPE_STORAGE", "SERVICE_TYPE_EXTERNAL_API",
    "SERVICE_TYPE_MICROSERVICE", "SERVICE_TYPE_OTHER" }

\* apiToEntServiceType: the wire number to the store's enum string
apiToEntServiceType(apiType) ==
  CASE apiType = SERVICE_TYPE_HTTP -> "SERVICE_TYPE_HTTP"
    [] apiType = SERVICE_TYPE_GRPC -> "SERVICE_TYPE_GRPC"
    [] apiType = SERVICE_TYPE_DATABASE -> "SERVICE_TYPE_DATABASE"
    [] apiType = SERVICE_TYPE_CACHE -> "SERVICE_TYPE_CACHE"
    [] apiType = SERVICE_TYPE_QUEUE -> "SERVICE_TYPE_QUEUE"
    [] apiType = SERVICE_TYPE_STORAGE -> "SERVICE_TYPE_STORAGE"
    [] apiType = SERVICE_TYPE_EXTERNAL_API -> "SERVICE_TYPE_EXTERNAL_API"
    [] apiType = SERVICE_TYPE_MICROSERVICE -> "SERVICE_TYPE_MICROSERVICE"
    [] apiType = SERVICE_TYPE_OTHER -> "SERVICE_TYPE_OTHER"
    [] apiType = SERVICE_TYPE_SYSTEMD -> "SERVICE_TYPE_SYSTEMD"
    [] OTHER -> "SERVICE_TYPE_UNSPECIFIED"

\* stringToServiceType: the store's enum string to the wire number
stringToServiceType(serviceType) ==
  CASE serviceType = "SERVICE_TYPE_HTTP" -> SERVICE_TYPE_HTTP
    [] serviceType = "SERVICE_TYPE_GRPC" -> SERVICE_TYPE_GRPC
    [] serviceType = "SERVICE_TYPE_DATABASE" -> SERVICE_TYPE_DATABASE
    [] serviceType = "SERVICE_TYPE_CACHE" -> SERVICE_TYPE_CACHE
    [] serviceType = "SERVICE_TYPE_QUEUE" -> SERVICE_TYPE_QUEUE
    [] serviceType = "SERVICE_TYPE_STORAGE" -> SERVICE_TYPE_STORAGE
    [] serviceType = "SERVICE_TYPE_EXTERNAL_API" -> SERVICE_TYPE_EXTERNAL_API
    [] serviceType = "SERVICE_TYPE_MICROSERVICE" -> SERVICE_TYPE_MICROSERVICE
    [] serviceType = "SERVICE_TYPE_OTHER" -> SERVICE_TYPE_OTHER
    [] serviceType = "SERVICE_TYPE_SYSTEMD" -> SERVICE_TYPE_SYSTEMD
    [] OTHER -> SERVICE_TYPE_UNSPECIFIED

\* service.Type(req.Type) in RegisterService: the Go conversion of the
\* integer enum to a string type yields the one-rune string whose code point
\* is the number, not the name of the enum value.
RuneStrings ==
  << "<U+0000>", "<U+0001>", "<U+0002>", "<U+0003>", "<U+0004>", "<U+0005>",
     "<U+0006>", "<U+0007>", "<U+0008>", "<U+0009>", "<U+000A>" >>

TypeConversion(apiType) == RuneStrings[apiType + 1]

(***************************************************************************)
(* Service ids on the wire.                                                *)
(***************************************************************************)
Digits == << "0", "1", "2", "3", "4", "5", "6", "7", "8", "9" >>

IsDigit(c) == \E i \in 1..Len(Digits) : Digits[i] = c

DigitVal(c) == (CHOOSE i \in 1..Len(Digits) : Digits[i] = c) - 1

RECURSIVE DigitsValue(_)
DigitsValue(s) ==
  IF s = << >> THEN 0
  ELSE DigitsValue(SubSeq(s, 1, Len(s) - 1)) * Len(Digits) + DigitVal(s[Len(s)])

\* ParseInt with its error dropped: what does not parse reads as 0
ParseIntErrorIgnored(s) ==
  LET signed == s # << >> /\ s[1] \in {"+", "-"}
      body == IF signed THEN Tail(s) ELSE s
  IN IF body = << >> \/ \E i \in 1..Len(body) : ~IsDigit(body[i])
       THEN [ok |-> TRUE, val |-> 0]
       ELSE [ok |-> TRUE,
             val |-> IF signed /\ s[1] = "-" THEN 0 - DigitsValue(body)
                     ELSE DigitsValue(body)]

\* strconv.ParseInt(s, 10, 64): an optional sign, then one or more digits
ParseInt(s) ==
  LET signed == s # << >> /\ s[1] \in {"+", "-"}
      body == IF signed THEN Tail(s) ELSE s
  IN IF body = << >> \/ \E i \in 1..Len(body) : ~IsDigit(body[i])
       THEN [ok |-> FALSE, val |-> 0]
       ELSE [ok |-> TRUE,
             val |-> IF signed /\ s[1] = "-" THEN 0 - DigitsValue(body)
                     ELSE DigitsValue(body)]

\* fmt.Sprintf("%d", n)
RECURSIVE FormatNat(_)
FormatNat(n) ==
  IF n < Len(Digits) THEN << Digits[n + 1] >>
  ELSE Append(FormatNat(n \div Len(Digits)), Digits[(n % Len(Digits)) + 1])

FormatInt(n) == IF n < 0 THEN << "-" >> \o FormatNat(0 - n) ELSE FormatNat(n)

(***************************************************************************)
(* The record store: the MySQL table "services" behind the Ent client,     *)
(* with the validators and the unique index the schema declares.           *)
(* A store is a function from the ids of the live rows to their fields.    *)
(***************************************************************************)
NameMaxLen == 255
EndpointMaxLen == 500
StatusMaxLen == 50

\* field validators of the schema, run by the Ent client before any write
ValidFields(f) ==
  /\ f.name # "" /\ Len(f.name) <= NameMaxLen
  /\ f.endpoint # "" /\ Len(f.endpoint) <= EndpointMaxLen
  /\ f.type \in TypeValues
  /\ Len(f.status) <= StatusMaxLen

\* the index on (name, endpoint) declared without Unique()
UniqueConflictNotEnforced(st, self, name, endpoint) == FALSE

\* the unique index on (name, endpoint): does a row other than `self`
\* already hold the pair?
UniqueConflict(st, self, name, endpoint) ==
  \E i \in DOMAIN st :
    i # self /\ st[i].name = name /\ st[i].endpoint = endpoint

PairCount(st, name, endpoint) ==
  Cardinality({i \in DOMAIN st : st[i].name = name /\ st[i].endpoint = endpoint})

\* an insert whose id is one more than the largest id of a live row, as a
\* counter recomputed from the table would give
DbCreateReusesId(st, nid, f, t) ==
  LET rid == IF DOMAIN st = {} THEN 1
             ELSE 1 + CHOOSE i \in DOMAIN st : \A j \in DOMAIN st : j <= i
  IN IF ~ValidFields(f)
       THEN [err |-> "ent: validator failed", st |-> st, id |-> 0]
     ELSE IF UniqueConflict(st, 0, f.name, f.endpoint)
       THEN [err |-> "ent: constraint failed", st |-> st, id |-> 0]
     ELSE [err |-> "",
           st |-> [i \in DOMAIN st \cup {rid} |->
                     IF i = rid
                       THEN [name |-> f.name, endpoint |-> f.endpoint,
                             type |-> f.type, status |-> f.status,
                             lastHeartbeat |-> f.lastHeartbeat,
                             createdAt |-> t, updatedAt |-> t]
                       ELSE st[i]],
           id |-> rid]

\* an insert that checks neither the validators nor the index
DbCreateUnchecked(st, nid, f, t) ==
  [err |-> "",
   st |-> [i \in DOMAIN st \cup {nid} |->
             IF i = nid
               THEN [name |-> f.name, endpoint |-> f.endpoint,
                     type |-> f.type, status |-> f.status,
                     lastHeartbeat |-> f.lastHeartbeat,
                     createdAt |-> t, updatedAt |-> t]
               ELSE st[i]],
   id |-> nid]

\* client.Service.Create()...Save(ctx): validate, insert under the unique
\* index with the next auto-increment id; created_at and updated_at default
\* to the time of the save.
DbCreate(st, nid, f, t) ==
  IF ~ValidFields(f)
    THEN [err |-> "ent: validator failed", st |-> st, id |-> 0]
  ELSE IF UniqueConflict(st, 0, f.name, f.endpoint)
    THEN [err |-> "ent: constraint failed", st |-> st, id |-> 0]
  ELSE [err |-> "",
        st |-> [i \in DOMAIN st \cup {nid} |->
                  IF i = nid
                    THEN [name |-> f.name, endpoint |-> f.endpoint,
                          type |-> f.type, status |-> f.status,
                          lastHeartbeat |-> f.lastHeartbeat,
                          createdAt |-> t, updatedAt |-> t]
                    ELSE st[i]],
        id |-> nid]

\* client.Service.Get(ctx, id)
DbGet(st, id) ==
  IF id \in DOMAIN st THEN [err |-> "", rec |-> st[id]]
  ELSE [err |-> "ent: service not found", rec |-> << >>]

\* an update built without SetName: the name of the row is left as it is
DbUpdateWithoutName(st, id, f, t) ==
  IF ~ValidFields(f)
    THEN [err |-> "ent: validator failed", st |-> st]
  ELSE IF id \notin DOMAIN st
    THEN [err |-> "ent: service not found", st |-> st]
  ELSE IF UniqueConflict(st, id, st[id].name, f.endpoint)
    THEN [err |-> "ent: constraint failed", st |-> st]
  ELSE [err |-> "",
        st |-> [st EXCEPT ![id] =
                  [name |-> st[id].name, endpoint |-> f.endpoint, type |-> f.type,
                   status |-> f.status, lastHeartbeat |-> f.lastHeartbeat,
                   createdAt |-> st[id].createdAt, updatedAt |-> t]]]

\* an update that inserts the row when it is missing
DbUpdateUpsert(st, id, f, t) ==
  IF ~ValidFields(f)
    THEN [err |-> "ent: validator failed", st |-> st]
  ELSE IF UniqueConflict(st, id, f.name, f.endpoint)
    THEN [err |-> "ent: constraint failed", st |-> st]
  ELSE [err |-> "",
        st |-> [i \in DOMAIN st \cup {id} |->
                  IF i = id
                    THEN [name |-> f.name, endpoint |-> f.endpoint,
                          type |-> f.type, status |-> f.status,
                          lastHeartbeat |-> f.lastHeartbeat,
                          createdAt |-> t, updatedAt |-> t]
                    ELSE st[i]]]

\* an update that also sets created_at to the time of the save
DbUpdateTouchesCreatedAt(st, id, f, t) ==
  IF ~ValidFields(f)
    THEN [err |-> "ent: validator failed", st |-> st]
  ELSE IF id \notin DOMAIN st
    THEN [err |-> "ent: service not found", st |-> st]
  ELSE IF UniqueConflict(st, id, f.name, f.endpoint)
    THEN [err |-> "ent: constraint failed", st |-> st]
  ELSE [err |-> "",
        st |-> [st EXCEPT ![id] =
                  [name |-> f.name, endpoint |-> f.endpoint, type |-> f.type,
                   status |-> f.status, lastHeartbeat |-> f.lastHeartbeat,
                   createdAt |-> t, updatedAt |-> t]]]

\* an update that does not look at the unique index
DbUpdateUnchecked(st, id, f, t) ==
  IF ~ValidFields(f)
    THEN [err |-> "ent: validator failed", st |-> st]
  ELSE IF id \notin DOMAIN st
    THEN [err |-> "ent: service not found", st |-> st]
  ELSE [err |-> "",
        st |-> [st EXCEPT ![id] =
                  [name |-> f.name, endpoint |-> f.endpoint, type |-> f.type,
                   status |-> f.status, lastHeartbeat |-> f.lastHeartbeat,
                   createdAt |-> st[id].createdAt, updatedAt |-> t]]]

\* client.Service.UpdateOneID(id).Set...().Save(ctx): validate, update the
\* row under the unique index; a missing row is a not-found error, never an
\* insert.  created_at is immutable, updated_at takes the time of the save.
DbUpdate(st, id, f, t) ==
  IF ~ValidFields(f)
    THEN [err |-> "ent: validator failed", st |-> st]
  ELSE IF id \notin DOMAIN st
    THEN [err |-> "ent: service not found", st |-> st]
  ELSE IF UniqueConflict(st, id, f.name, f.endpoint)
    THEN [err |-> "ent: constraint failed", st |-> st]
  ELSE [err |-> "",
        st |-> [st EXCEPT ![id] =
                  [name |-> f.name, endpoint |-> f.endpoint, type |-> f.type,
                   status |-> f.status, lastHeartbeat |-> f.lastHeartbeat,
                   createdAt |-> st[id].createdAt, updatedAt |-> t]]]

\* a delete that reports success when no row was affected
DbDeleteIdempotent(st, id) ==
  [err |-> "", st |-> [i \in DOMAIN st \ {id} |-> st[i]]]

\* client.Service.DeleteOneID(id).Exec(ctx)
DbDelete(st, id) ==
  IF id \in DOMAIN st
    THEN [err |-> "", st |-> [i \in DOMAIN st \ {id} |-> st[i]]]
  ELSE [err |-> "ent: service not found", st |-> st]

\* ent.IsNotFound(err)
IsNotFound(err) == err = "ent: service not found"

\* client.Service.Query().Order(ent.Desc(created_at)).All(ctx): the ids of
\* all rows, newest creation first; rows created in the same second come in
\* an order the database chooses.
DbListOrders(st) ==
  { o \in [1..Cardinality(DOMAIN st) -> DOMAIN st] :
      /\ \A i, j \in DOMAIN o : i # j => o[i] # o[j]
      /\ \A i, j \in DOMAIN o : i < j => st[o[i]].createdAt >= st[o[j]].createdAt }

(***************************************************************************)
(* EntClient: the wrapper of the store the server calls.  Errors are Go    *)
(* error messages; "" is nil.  The results carry, as history, the error    *)
(* the Ent client returned (cause).                                        *)
(***************************************************************************)
\* The error of a store call whose connection to the database fails; "" is
\* a call that goes through.
StoreFaults == {"", "dial tcp: connect: connection refused"}

\* the result of a call of the Ent client under a fault of the connection:
\* the call returns the error and its effect on the table is dropped by the
\* EntClient, which returns on the error
Faulted(r, fault) == IF fault = "" THEN r ELSE [r EXCEPT !.err = fault]

\* EntClient.CreateService
CreateService(st, nid, serviceRecord, t) ==
  LET r == DbCreate(st, nid, serviceRecord, t)
  IN IF r.err # ""
       THEN [err |-> "failed to create service: " \o r.err, st |-> st, id |-> 0]
       ELSE [err |-> "", st |-> r.st, id |-> r.id]

\* EntClient.GetService
GetService(st, serviceID, fault) ==
  LET r == Faulted(DbGet(st, serviceID), fault)
  IN IF r.err # ""
       THEN IF IsNotFound(r.err)
              THEN [err |-> "service not found", rec |-> << >>, cause |-> r.err]
              ELSE [err |-> "failed to get service: " \o r.err, rec |-> << >>,
                    cause |-> r.err]
       ELSE [err |-> "", rec |-> r.rec, cause |-> ""]

\* EntClient.DeleteService
DeleteService(st, serviceID, fault) ==
  LET r == Faulted(DbDelete(st, serviceID), fault)
  IN IF r.err # ""
       THEN IF IsNotFound(r.err)
              THEN [err |-> "service not found", st |-> st, cause |-> r.err]
              ELSE [err |-> "failed to delete service: " \o r.err, st |-> st,
                    cause |-> r.err]
       ELSE [err |-> "", st |-> r.st, cause |-> ""]

\* EntClient.UpdateService, first half: fetch the current record
UpdateServiceGet(st, serviceID, fault) ==
  LET r == GetService(st, serviceID, fault)
  IN IF r.err # ""
       THEN [err |-> "service not found: " \o r.err, rec |-> << >>,
             cause |-> r.cause]
       ELSE r

\* EntClient.UpdateService: current values stand in for empty parameters
UpdateServiceFields(currentService, newStatus, name, serviceType, endpoint, t) ==
  [name |-> IF name = "" THEN currentService.name ELSE name,
   endpoint |-> IF endpoint = "" THEN currentService.endpoint ELSE endpoint,
   type |-> IF serviceType = "" THEN currentService.type ELSE serviceType,
   status |-> newStatus,
   lastHeartbeat |-> t]

\* a save that writes the row and then reports an error
UpdateServiceWriteThenError(st, serviceID, f, t, fault) ==
  LET r == DbUpdate(st, serviceID, f, t)
  IN [err |-> "failed to update service: i/o timeout", st |-> r.st,
      cause |-> "i/o timeout"]

\* EntClient.UpdateService, second half: write all fields
UpdateServiceWrite(st, serviceID, f, t, fault) ==
  LET r == Faulted(DbUpdate(st, serviceID, f, t), fault)
  IN IF r.err # ""
       THEN [err |-> "failed to update service: " \o r.err, st |-> st,
             cause |-> r.err]
       ELSE [err |-> "", st |-> r.st, cause |-> ""]

(***************************************************************************)
(* State.                                                                  *)
(***************************************************************************)
VARIABLES
  store,    \* the live rows of the table, by id
  nextId,   \* the AUTO_INCREMENT counter of the table
  now,      \* the wall clock, in seconds
  procs,    \* per client: the handler serving its request, or its response
  deleted   \* history: ids whose UnregisterService has succeeded

vars == << store, nextId, now, procs, deleted >>

\* Inputs of the requests.
StatusInputs == {"healthy", "down"}
TypeInputs == {SERVICE_TYPE_UNSPECIFIED, SERVICE_TYPE_HTTP}
\* service ids: empty, two that are no numbers, the ids of two initial rows,
\* the id of no row, zero and a negative number
IdInputs ==
  { << >>, << "z" >>, << "1", "z" >>, << "1" >>, << "2" >>, << "9" >>,
    << "0" >>, << "-", "1" >> }

RegisterInputs ==
  [name : {"", "a", "b"}, endpoint : {"", "x", "y"}, type : TypeInputs]

\* all combinations of the optional fields for the ids that parse as a
\* positive number; one request for each other id, the fields of which are
\* never read
UpdateInputs ==
  [sid : {s \in IdInputs : ParseInt(s).ok /\ ParseInt(s).val > 0},
   status : StatusInputs,
   name : {"", "b"}, endpoint : {"", "y"}, type : TypeInputs]
  \cup [sid : {s \in IdInputs : ~ParseInt(s).ok \/ ParseInt(s).val <= 0},
        status : {"healthy"},
        name : {""}, endpoint : {""}, type : {SERVICE_TYPE_UNSPECIFIED}]

\* outcomes of the outbound probes of CheckServiceHealth
HTTPOutcomes == {"200", "503", "unreachable"}
SystemdOutcomes == {"active", "inactive"}

\* The rows present when the server starts.  The table is durable and
\* outlives the server process; the rows satisfy the schema.
InitRow(i) ==
  [name |-> IF i = 2 THEN "b" ELSE "a",
   endpoint |-> IF i = 3 THEN "y" ELSE "x",
   type |-> IF i = 1 THEN "SERVICE_TYPE_HTTP"
            ELSE IF i = 2 THEN "SERVICE_TYPE_DATABASE"
            ELSE "SERVICE_TYPE_GRPC",
   status |-> "active",
   lastHeartbeat |-> 0, createdAt |-> 0, updatedAt |-> 0]

NoRequest ==
  [sid |-> << >>, name |-> "", endpoint |-> "",
   type |-> SERVICE_TYPE_UNSPECIFIED, status |-> ""]

NoResponse ==
  [code |-> "", serviceId |-> << >>, services |-> << >>, status |-> "",
   message |-> "", args |-> << >>]

\* A client and the handler of its request:
\*   pc     "idle" (no request yet), "register_create" (validated, before
\*          the create), "update_save" (record fetched, before the save),
\*          "check_probe" (record fetched, probe under way), "done"
\*   op, req, resp   the operation, its request and its response
\*   id     the parsed service id
\*   cur    the record the handler holds: the one to create, or the one read
\*   t0     the clock when the record was read
\*   calls  history: number of store calls the handler has made
\*   fresh  history: at its create, no row had the pair of the request
\*   peer   history: at its create or its save, the client whose request on
\*          the same pair or the same id was under way, or ""
\*   seen   history: at its create, the ids the table had assigned so far
\*   gone   history: at its create, the ids deleted so far
\*   wrote  history: the fields its save has written
\*   probe  history: what its outbound probe came to
\*   errs   history: the errors its store calls returned, in call order
Idle ==
  [pc |-> "idle", op |-> "", req |-> NoRequest, id |-> 0, cur |-> << >>,
   t0 |-> 0, resp |-> NoResponse, calls |-> 0, fresh |-> FALSE, peer |-> "",
   seen |-> {}, gone |-> {}, wrote |-> << >>, probe |-> "", errs |-> << >>]

Init ==
  /\ store = [i \in 1..NumInit |-> InitRow(i)]
  /\ nextId = NumInit + 1
  /\ now = 0
  /\ procs = [c \in Clients |-> Idle]
  /\ deleted = {}

\* status.Errorf(code, message): the handler fails
Fail(p, code, message) ==
  [p EXCEPT !.pc = "done", !.resp = [NoResponse EXCEPT !.code = code, !.message = message]]

\* the handler returns a response
Reply(p, r) == [p EXCEPT !.pc = "done", !.resp = r]

\* a client that has issued no request yet issues one
Issue(c) == procs[c].pc = "idle"

Started(op, req) == [Idle EXCEPT !.op = op, !.req = req]

(***************************************************************************)
(* WatchdogServer.RegisterService                                          *)
(***************************************************************************)
\* a request that names only its service fails validation on the endpoint
RegisterServiceValidateNameOnly(name, endpoint) ==
  IF name = "" THEN "service name cannot be empty" ELSE ""

\* the validation of the request: the message of the failure, or ""
RegisterServiceValidate(name, endpoint) ==
  IF name = "" THEN "service name cannot be empty"
  ELSE IF endpoint = "" THEN "service endpoint cannot be empty"
  ELSE ""

\* validation, and the record handed to the store
RegisterServiceBegin(c, name, endpoint, type) ==
  LET req == [NoRequest EXCEPT !.name = name, !.endpoint = endpoint, !.type = type]
      p == Started("RegisterService", req)
  IN /\ Issue(c)
     /\ procs' = [procs EXCEPT ![c] =
          IF RegisterServiceValidate(name, endpoint) # ""
            THEN Fail(p, "InvalidArgument", RegisterServiceValidate(name, endpoint))
          ELSE [p EXCEPT !.pc = "register_create",
                         !.cur = [name |-> name, endpoint |-> endpoint,
                                  type |-> TypeConversion(type),
                                  status |-> "active", lastHeartbeat |-> now]]]
     /\ UNCHANGED << store, nextId, now, deleted >>

\* the store call and the response
RegisterServiceCreate(c) ==
  LET p == procs[c]
      r == CreateService(store, nextId, p.cur, now)
      q == [p EXCEPT !.calls = p.calls + 1,
                     !.fresh = ~UniqueConflict(store, 0, p.cur.name, p.cur.endpoint),
                     !.peer = IF \E d \in Clients \ {c} :
                                    /\ procs[d].pc = "register_create"
                                    /\ procs[d].cur.name = p.cur.name
                                    /\ procs[d].cur.endpoint = p.cur.endpoint
                                THEN CHOOSE d \in Clients \ {c} :
                                    /\ procs[d].pc = "register_create"
                                    /\ procs[d].cur.name = p.cur.name
                                    /\ procs[d].cur.endpoint = p.cur.endpoint
                                ELSE ""]
  IN /\ p.pc = "register_create"
     /\ nextId <= MaxId
     /\ store' = r.st
     /\ nextId' = IF r.err = "" THEN nextId + 1 ELSE nextId
     /\ procs' = [procs EXCEPT ![c] =
          IF r.err # ""
            THEN Fail(q, "Internal", "failed to register service")
            ELSE Reply(q, [NoResponse EXCEPT
                   !.code = "OK",
                   !.serviceId = FormatInt(r.id),
                   !.message = "Service %s registered successfully with ID %d",
                   !.args = << p.req.name, FormatInt(r.id) >>])]
     /\ UNCHANGED << now, deleted >>

(***************************************************************************)
(* WatchdogServer.UnregisterService                                        *)
(***************************************************************************)
UnregisterService(c, sid, fault) ==
  LET req == [NoRequest EXCEPT !.sid = sid]
      p == Started("UnregisterService", req)
      n == ParseInt(sid)
      r == DeleteService(store, n.val, fault)
      q == [p EXCEPT !.id = n.val, !.calls = 1, !.errs = << r.cause >>]
  IN /\ Issue(c)
     /\ IF sid = << >>
          THEN /\ procs' = [procs EXCEPT ![c] =
                    Fail(p, "InvalidArgument", "service ID cannot be empty")]
               /\ UNCHANGED << store, deleted >>
        ELSE IF ~n.ok
          THEN /\ procs' = [procs EXCEPT ![c] =
                    Fail(p, "InvalidArgument", "invalid service ID format")]
               /\ UNCHANGED << store, deleted >>
        ELSE /\ store' = r.st
             /\ deleted' = IF r.err = "" THEN deleted \cup {n.val} ELSE deleted
             /\ procs' = [procs EXCEPT ![c] =
                  IF r.err # ""
                    THEN IF r.err = "service not found"
                           THEN Fail(q, "NotFound", "service not found")
                           ELSE Fail(q, "Internal", "failed to unregister service")
                    ELSE Reply(q, [NoResponse EXCEPT
                           !.code = "OK",
                           !.message = "Service unregistered successfully"])]
     /\ UNCHANGED << nextId, now >>

(***************************************************************************)
(* WatchdogServer.ListServices                                             *)
(***************************************************************************)
\* the caller-facing shape of one record
ServiceInfo(st, i) ==
  [id |-> FormatInt(i),
   name |-> st[i].name,
   endpoint |-> st[i].endpoint,
   status |-> st[i].status,
   lastHeartbeat |-> st[i].lastHeartbeat,
   type |-> stringToServiceType(st[i].type)]

ListServices(c) ==
  LET p == Started("ListServices", NoRequest)
  IN /\ Issue(c)
     /\ \E o \in DbListOrders(store) :
          procs' = [procs EXCEPT ![c] =
            Reply([p EXCEPT !.calls = 1],
                  [NoResponse EXCEPT
                     !.code = "OK",
                     !.services = [k \in DOMAIN o |-> ServiceInfo(store, o[k])]])]
     /\ UNCHANGED << store, nextId, now, deleted >>

(***************************************************************************)
(* WatchdogServer.GetHealth                                                *)
(***************************************************************************)
\* EntClient.HealthCheck: a count query on the table; its error is the
\* fault of the connection
HealthCheck(st, fault) == fault

\* ServiceDB.LogHealthCheck: the audit log of the check
LogHealthCheck(status, serviceCount, fault) == fault

\* a handler that gives up when the records cannot be listed
GetHealthResponseListFatal(hcErr, lsErr, logErr, serviceCount) ==
  IF hcErr # ""
    THEN [NoResponse EXCEPT !.code = "OK", !.status = "unhealthy",
                            !.message = "Database connection failed"]
  ELSE IF lsErr # ""
    THEN [NoResponse EXCEPT !.code = "Internal",
                            !.message = "failed to list services"]
  ELSE [NoResponse EXCEPT
          !.code = "OK", !.status = "healthy",
          !.message = "Watchdog service is running with %d registered services",
          !.args = << FormatInt(serviceCount) >>]

\* the response of GetHealth, given the errors of HealthCheck, ListServices
\* and LogHealthCheck and the number of services listed; the last two
\* errors are logged and dropped
GetHealthResponse(hcErr, lsErr, logErr, serviceCount) ==
  IF hcErr # ""
    THEN [NoResponse EXCEPT !.code = "OK", !.status = "unhealthy",
                            !.message = "Database connection failed"]
  ELSE [NoResponse EXCEPT
          !.code = "OK", !.status = "healthy",
          !.message = "Watchdog service is running with %d registered services",
          !.args = << FormatInt(serviceCount) >>]

\* the handler, with the fault each of its store calls meets; a listing
\* that fails leaves the handler with no services, len(nil) = 0
GetHealth(c, hcFault, lsFault, logFault) ==
  LET p == Started("GetHealth", NoRequest)
      hcErr == HealthCheck(store, hcFault)
      serviceCount == IF lsFault # "" THEN 0 ELSE Cardinality(DOMAIN store)
      logErr == LogHealthCheck("healthy", serviceCount, logFault)
      q == IF hcErr # ""
             THEN [p EXCEPT !.calls = 1, !.errs = << hcErr >>]
             ELSE [p EXCEPT !.calls = 3, !.errs = << hcErr, lsFault, logErr >>]
  IN /\ Issue(c)
     /\ procs' = [procs EXCEPT ![c] =
          Reply(q, GetHealthResponse(hcErr, lsFault, logErr, serviceCount))]
     /\ UNCHANGED << store, nextId, now, deleted >>

(***************************************************************************)
(* WatchdogServer.UpdateService                                            *)
(***************************************************************************)
\* validation and the read of the current record (EntClient.UpdateService
\* up to GetService)
UpdateServiceBegin(c, sid, status, name, endpoint, type, fault) ==
  LET req == [sid |-> sid, name |-> name, endpoint |-> endpoint,
              type |-> type, status |-> status]
      p == Started("UpdateService", req)
      n == ParseInt(sid)
      r == UpdateServiceGet(store, n.val, fault)
      q == [p EXCEPT !.id = n.val, !.calls = 1, !.errs = << r.cause >>]
  IN /\ Issue(c)
     /\ procs' = [procs EXCEPT ![c] =
          IF sid = << >>
            THEN Fail(p, "InvalidArgument", "service ID cannot be empty")
          ELSE IF ~n.ok
            THEN Fail(p, "InvalidArgument", "invalid service ID format")
          ELSE IF r.err # ""
            THEN IF r.err = "service not found"
                   THEN Fail(q, "NotFound", "service not found")
                   ELSE Fail(q, "Internal", "failed to update service")
          ELSE [q EXCEPT !.pc = "update_save", !.cur = r.rec, !.t0 = now]]
     /\ UNCHANGED << store, nextId, now, deleted >>

\* the write of all fields (EntClient.UpdateService from the defaults on)
\* and the response.  time.Now() for last_heartbeat is read after the fetch
\* and before the save, the default of updated_at during the save.
UpdateServiceSave(c, fault) ==
  LET p == procs[c]
  IN /\ p.pc = "update_save"
     /\ \E t \in p.t0..now : \E u \in t..now :
          LET f == UpdateServiceFields(p.cur, p.req.status, p.req.name,
                                       apiToEntServiceType(p.req.type),
                                       p.req.endpoint, t)
              r == UpdateServiceWrite(store, p.id, f, u, fault)
              q == [p EXCEPT !.calls = p.calls + 1,
                             !.errs = Append(p.errs, r.cause),
                             !.wrote = IF r.err = "" THEN f ELSE << >>,
                             !.peer = IF \E d \in Clients \ {c} :
                                            /\ procs[d].pc = "update_save"
                                            /\ procs[d].id = p.id
                                        THEN CHOOSE d \in Clients \ {c} :
                                            /\ procs[d].pc = "update_save"
                                            /\ procs[d].id = p.id
                                        ELSE ""]
          IN /\ store' = r.st
             /\ procs' = [procs EXCEPT ![c] =
                  IF r.err # ""
                    THEN IF r.err = "service not found"
                           THEN Fail(q, "NotFound", "service not found")
                           ELSE Fail(q, "Internal", "failed to update service")
                    ELSE Reply(q, [NoResponse EXCEPT
                           !.code = "OK",
                           !.message = "Service updated successfully"])]
     /\ UNCHANGED << nextId, now, deleted >>

(***************************************************************************)
(* WatchdogServer.CheckServiceHealth                                       *)
(***************************************************************************)
Unreachable == "Service is unreachable: %v"
Checked == "Service health checked successfully"

\* a gRPC check that depends on the endpoint
checkGRPCHealthByEndpoint(endpoint) ==
  IF endpoint = "x" THEN [status |-> "healthy", err |-> ""]
  ELSE [status |-> "unhealthy", err |-> "connection refused"]

\* checkGRPCHealth and checkDatabaseHealth: stubs
checkGRPCHealth(endpoint) == [status |-> "healthy", err |-> ""]
checkDatabaseHealth(endpoint) == [status |-> "healthy", err |-> ""]

\* checkHTTPHealth without the test of the status code: any answer counts
\* as healthy
checkHTTPHealthAnyAnswer(endpoint, outcome) ==
  IF outcome = "unreachable" THEN [status |-> "unhealthy", err |-> "connection refused"]
  ELSE [status |-> "healthy", err |-> ""]

\* checkHTTPHealth, given what the GET to the endpoint came to
checkHTTPHealth(endpoint, outcome) ==
  IF outcome = "unreachable" THEN [status |-> "unhealthy", err |-> "connection refused"]
  ELSE IF outcome # "200" THEN [status |-> "unhealthy", err |-> "HTTP status code: " \o outcome]
  ELSE [status |-> "healthy", err |-> ""]

\* checkSystemdHealth, given what "systemctl is-active" printed; it exits
\* with a non-zero status unless the unit is active
checkSystemdHealth(endpoint, outcome) ==
  IF outcome # "active" THEN [status |-> "unhealthy", err |-> "exit status 3"]
  ELSE [status |-> "healthy", err |-> ""]

\* a response that carries the confirmation whatever the probe returned
ProbeResponseFixedMessage(h) ==
  IF h.err # ""
    THEN [NoResponse EXCEPT !.code = "OK", !.status = "unhealthy", !.message = Checked]
    ELSE [NoResponse EXCEPT !.code = "OK", !.status = h.status, !.message = Checked]

\* the response of CheckServiceHealth after a probe
ProbeResponse(h) ==
  IF h.err # ""
    THEN [NoResponse EXCEPT !.code = "OK", !.status = "unhealthy",
                            !.message = Unreachable, !.args = << h.err >>]
    ELSE [NoResponse EXCEPT !.code = "OK", !.status = h.status, !.message = Checked]

\* the stub case without SERVICE_TYPE_DATABASE
StubTypesWithoutDatabase ==
  { "SERVICE_TYPE_CACHE", "SERVICE_TYPE_QUEUE",
    "SERVICE_TYPE_STORAGE", "SERVICE_TYPE_EXTERNAL_API",
    "SERVICE_TYPE_MICROSERVICE", "SERVICE_TYPE_OTHER" }

StubTypes ==
  { "SERVICE_TYPE_DATABASE", "SERVICE_TYPE_CACHE", "SERVICE_TYPE_QUEUE",
    "SERVICE_TYPE_STORAGE", "SERVICE_TYPE_EXTERNAL_API",
    "SERVICE_TYPE_MICROSERVICE", "SERVICE_TYPE_OTHER" }

\* validation, the read of the record and the dispatch on its type; the
\* probes of HTTP and systemd records block on the outside world
CheckServiceHealthBegin(c, sid, fault) ==
  LET req == [NoRequest EXCEPT !.sid = sid]
      p == Started("CheckServiceHealth", req)
      n == ParseInt(sid)
      r == GetService(store, n.val, fault)
      q == [p EXCEPT !.id = n.val, !.calls = 1, !.errs = << r.cause >>]
  IN /\ Issue(c)
     /\ procs' = [procs EXCEPT ![c] =
          IF sid = << >>
            THEN Fail(p, "InvalidArgument", "service ID cannot be empty")
          ELSE IF ~n.ok
            THEN Fail(p, "InvalidArgument", "invalid service ID format")
          ELSE IF r.err # ""
            THEN Fail(q, "NotFound", "service not found")
          ELSE IF r.rec.type \in {"SERVICE_TYPE_HTTP", "SERVICE_TYPE_SYSTEMD"}
            THEN [q EXCEPT !.pc = "check_probe", !.cur = r.rec]
          ELSE IF r.rec.type = "SERVICE_TYPE_GRPC"
            THEN Reply([q EXCEPT !.cur = r.rec],
                       ProbeResponse(checkGRPCHealth(r.rec.endpoint)))
          ELSE IF r.rec.type \in StubTypes
            THEN Reply([q EXCEPT !.cur = r.rec],
                       ProbeResponse(checkDatabaseHealth(r.rec.endpoint)))
          ELSE Fail([q EXCEPT !.cur = r.rec], "InvalidArgument",
                    "Unsupported service type")]
     /\ UNCHANGED << store, nextId, now, deleted >>

\* a probe step that also stores the derived status and the time of the
\* check in the record
CheckServiceHealthProbeStoresStatus(c) ==
  LET p == procs[c]
  IN /\ p.pc = "check_probe"
     /\ \E o \in IF p.cur.type = "SERVICE_TYPE_HTTP"
                   THEN HTTPOutcomes ELSE SystemdOutcomes :
          LET h == IF p.cur.type = "SERVICE_TYPE_HTTP"
                     THEN checkHTTPHealth(p.cur.endpoint, o)
                     ELSE checkSystemdHealth(p.cur.endpoint, o)
          IN /\ procs' = [procs EXCEPT ![c] =
                           Reply([p EXCEPT !.probe = o], ProbeResponse(h))]
             /\ store' = IF p.id \in DOMAIN store
                           THEN [store EXCEPT ![p.id].status = h.status,
                                              ![p.id].lastHeartbeat = now]
                           ELSE store
     /\ UNCHANGED << nextId, now, deleted >>

\* the probe returns
CheckServiceHealthProbe(c) ==
  LET p == procs[c]
  IN /\ p.pc = "check_probe"
     /\ \E o \in IF p.cur.type = "SERVICE_TYPE_HTTP"
                   THEN HTTPOutcomes ELSE SystemdOutcomes :
          LET h == IF p.cur.type = "SERVICE_TYPE_HTTP"
                     THEN checkHTTPHealth(p.cur.endpoint, o)
                     ELSE checkSystemdHealth(p.cur.endpoint, o)
          IN procs' = [procs EXCEPT ![c] =
                         Reply([p EXCEPT !.probe = o], ProbeResponse(h))]
     /\ UNCHANGED << store, nextId, now, deleted >>

(***************************************************************************)
(* The clock.                                                              *)
(***************************************************************************)
Tick ==
  /\ now < MaxClock
  /\ now' = now + 1
  /\ UNCHANGED << store, nextId, procs, deleted >>

Next ==
  \/ \E c \in Clients, r \in RegisterInputs :
       RegisterServiceBegin(c, r.name, r.endpoint, r.type)
  \/ \E c \in Clients : RegisterServiceCreate(c)
  \/ \E c \in Clients, sid \in IdInputs : UnregisterService(c, sid, "")
  \/ \E c \in Clients : ListServices(c)
  \/ \E c \in Clients : GetHealth(c, "", "", "")
  \/ \E c \in Clients, r \in UpdateInputs :
       UpdateServiceBegin(c, r.sid, r.status, r.name, r.endpoint, r.type, "")
  \/ \E c \in Clients : UpdateServiceSave(c, "")
  \/ \E c \in Clients, sid \in IdInputs : CheckServiceHealthBegin(c, sid, "")
  \/ \E c \in Clients : CheckServiceHealthProbe(c)
  \/ Tick

Spec == Init /\ [][Next]_vars

(***************************************************************************)
(* The server with a store whose connection may fail: each store call of   *)
(* GetHealth, UnregisterService, UpdateService and CheckServiceHealth goes *)
(* through or returns the error of the connection.                         *)
(***************************************************************************)
\* the faults that are errors
Failures == StoreFaults \ {""}

NextStoreFaults ==
  \/ Next
  \/ \E c \in Clients, hcFault, lsFault, logFault \in StoreFaults :
       GetHealth(c, hcFault, lsFault, logFault)
  \/ \E c \in Clients, sid \in IdInputs, fault \in Failures :
       UnregisterService(c, sid, fault)
  \/ \E c \in Clients, r \in UpdateInputs, fault \in Failures :
       UpdateServiceBegin(c, r.sid, r.status, r.name, r.endpoint, r.type, fault)
  \/ \E c \in Clients, fault \in Failures : UpdateServiceSave(c, fault)
  \/ \E c \in Clients, sid \in IdInputs, fault \in Failures :
       CheckServiceHealthBegin(c, sid, fault)

SpecStoreFaults == Init /\ [][NextStoreFaults]_vars

(***************************************************************************)
(* The EntClient called directly through the ServiceDB interface, with     *)
(* records as a caller of the database package builds them.  Unlike the    *)
(* handlers above, a client may call again after its call has returned.    *)
(***************************************************************************)
\* the records handed to CreateService: the type is a value of the schema
\* or the one-rune string RegisterService produces
EntRecords ==
  [name : {"a", "b"}, endpoint : {"y"},
   type : {"SERVICE_TYPE_HTTP", TypeConversion(SERVICE_TYPE_HTTP)}]

\* ServiceDB.CreateService
EntCreateService(c, rec) ==
  LET f == [name |-> rec.name, endpoint |-> rec.endpoint, type |-> rec.type,
            status |-> "active", lastHeartbeat |-> now]
      r == CreateService(store, nextId, f, now)
      p == [Started("CreateService", [NoRequest EXCEPT !.name = rec.name,
                                                       !.endpoint = rec.endpoint])
              EXCEPT !.cur = f, !.calls = 1, !.id = r.id,
                     !.seen = DOMAIN store \cup deleted, !.gone = deleted]
  IN /\ Issue(c)
     /\ nextId <= MaxId
     /\ store' = r.st
     /\ nextId' = IF r.err = "" THEN nextId + 1 ELSE nextId
     /\ procs' = [procs EXCEPT ![c] =
          IF r.err # ""
            THEN Fail(p, "Internal", r.err)
            ELSE Reply(p, [NoResponse EXCEPT !.code = "OK",
                                             !.serviceId = FormatInt(r.id)])]
     /\ UNCHANGED << now, deleted >>

\* ServiceDB.DeleteService
EntDeleteService(c, serviceID) ==
  LET r == DeleteService(store, serviceID, "")
      p == [Started("DeleteService", [NoRequest EXCEPT !.sid = FormatInt(serviceID)])
              EXCEPT !.calls = 1, !.id = serviceID]
  IN /\ Issue(c)
     /\ store' = r.st
     /\ deleted' = IF r.err = "" THEN deleted \cup {serviceID} ELSE deleted
     /\ procs' = [procs EXCEPT ![c] =
          IF r.err # ""
            THEN Fail(p, "NotFound", r.err)
            ELSE Reply(p, [NoResponse EXCEPT !.code = "OK"])]
     /\ UNCHANGED << nextId, now >>

\* the caller goes on to its next call
Return(c) ==
  /\ procs[c].pc = "done"
  /\ procs' = [procs EXCEPT ![c] = Idle]
  /\ UNCHANGED << store, nextId, now, deleted >>

NextEnt ==
  \/ \E c \in Clients, rec \in EntRecords : EntCreateService(c, rec)
  \/ \E c \in Clients, i \in 1..MaxId : EntDeleteService(c, i)
  \/ \E c \in Clients : Return(c)
  \/ Tick

SpecEnt == Init /\ [][NextEnt]_vars

(***************************************************************************)
(* CheckServiceHealth over a table whose first row has any type of the     *)
(* schema and either endpoint.                                             *)
(***************************************************************************)
InitProbes ==
  /\ \E ty \in TypeValues, ep \in {"x", "y"} :
       store = [i \in 1..NumInit |->
                  IF i = 1 THEN [InitRow(i) EXCEPT !.type = ty, !.endpoint = ep]
                  ELSE InitRow(i)]
  /\ nextId = NumInit + 1
  /\ now = 0
  /\ procs = [c \in Clients |-> Idle]
  /\ deleted = {}

NextProbes ==
  \/ \E c \in Clients, sid \in IdInputs : CheckServiceHealthBegin(c, sid, "")
  \/ \E c \in Clients : CheckServiceHealthProbe(c)
  \/ \E c \in Clients : Return(c)
  \/ Tick

SpecProbes == InitProbes /\ [][NextProbes]_vars

(***************************************************************************)
(* Properties.                                                             *)
(***************************************************************************)
Done(c, op) == procs[c].pc = "done" /\ procs[c].op = op

\* in this step the handler of client c runs from the request to its first
\* blocking point or its response
Begins(c, op) == procs[c].pc = "idle" /\ procs'[c].pc # "idle" /\ procs'[c].op = op

\* in this step client c gets its response
Completes(c, op) == procs[c].pc # "done" /\ procs'[c].pc = "done" /\ procs'[c].op = op

IdOps == {"UpdateService", "UnregisterService", "CheckServiceHealth"}

\* C1: in every reachable state no two live records have both the same name
\* and the same endpoint, also after UpdateService changed a name or endpoint.
C1_UniqueNameEndpoint ==
  \A i, j \in DOMAIN store :
    i # j => ~(store[i].name = store[j].name /\ store[i].endpoint = store[j].endpoint)

C1_Witness ==
  \E c \in Clients :
    /\ Done(c, "UpdateService")
    /\ procs[c].resp.code = "OK"
    /\ \/ procs[c].req.name \notin {"", procs[c].cur.name}
       \/ procs[c].req.endpoint \notin {"", procs[c].cur.endpoint}
    /\ Cardinality(DOMAIN store) >= 2

\* C2: a RegisterService whose (name, endpoint) pair a live record already
\* has fails with Internal, and afterwards exactly one record has the pair:
\* the store is as it was.
C2_DuplicateRegisterFails ==
  [][\A c \in Clients :
       ( /\ Completes(c, "RegisterService")
         /\ procs[c].pc = "register_create"
         /\ UniqueConflict(store, 0, procs[c].cur.name, procs[c].cur.endpoint) )
       => /\ procs'[c].resp.code = "Internal"
          /\ store' = store
          /\ PairCount(store', procs[c].cur.name, procs[c].cur.endpoint) = 1]_vars

C2_Witness ==
  \E c \in Clients :
    /\ Done(c, "RegisterService")
    /\ procs[c].calls = 1
    /\ ~procs[c].fresh
    /\ procs[c].resp.code = "Internal"
    /\ PairCount(store, procs[c].req.name, procs[c].req.endpoint) = 1

\* C3: of two RegisterService calls with the same pair that run concurrently
\* while no record has the pair, exactly one succeeds, the other fails with
\* Internal, and exactly one record with the pair exists afterwards.
C3_ConcurrentRegisterOneWins ==
  \A c, d \in Clients :
    ( /\ c # d
      /\ Done(c, "RegisterService") /\ Done(d, "RegisterService")
      /\ procs[c].calls = 1 /\ procs[d].calls = 1
      /\ procs[c].peer = d /\ procs[c].fresh
      /\ procs[c].req.name = procs[d].req.name
      /\ procs[c].req.endpoint = procs[d].req.endpoint )
    => /\ {procs[c].resp.code, procs[d].resp.code} = {"OK", "Internal"}
       /\ PairCount(store, procs[c].req.name, procs[c].req.endpoint) = 1

\* C4: a RegisterService with non-empty name and endpoint whose pair is not
\* yet registered succeeds and returns the new id, and a ListServices that
\* follows lists a record with that id, status "active", lastHeartbeat set
\* and the supplied name, endpoint and type.
C4_RegisterThenList ==
  [][\A c \in Clients :
       ( /\ Completes(c, "RegisterService")
         /\ procs[c].pc = "register_create"
         /\ ~UniqueConflict(store, 0, procs[c].cur.name, procs[c].cur.endpoint) )
       => /\ procs'[c].resp.code = "OK"
          /\ \A o \in DbListOrders(store') :
               \E k \in DOMAIN o :
                 LET info == ServiceInfo(store', o[k])
                 IN /\ info.id = procs'[c].resp.serviceId
                    /\ info.status = "active"
                    /\ info.lastHeartbeat = procs[c].cur.lastHeartbeat
                    /\ info.name = procs[c].req.name
                    /\ info.endpoint = procs[c].req.endpoint
                    /\ info.type = procs[c].req.type]_vars

\* C5: a RegisterService with an empty name or an empty endpoint fails with
\* InvalidArgument, makes no store call and leaves the records unchanged.
C5_RegisterEmptyField ==
  [][\A c \in Clients :
       ( /\ Begins(c, "RegisterService")
         /\ (procs'[c].req.name = "" \/ procs'[c].req.endpoint = "") )
       => /\ procs'[c].pc = "done"
          /\ procs'[c].resp.code = "InvalidArgument"
          /\ procs'[c].calls = 0
          /\ store' = store /\ nextId' = nextId]_vars

C5_Witness ==
  \E c, d \in Clients :
    /\ Done(c, "RegisterService") /\ Done(d, "RegisterService")
    /\ procs[c].req.name = "" /\ procs[c].req.endpoint # ""
    /\ procs[d].req.name # "" /\ procs[d].req.endpoint = ""
    /\ procs[c].resp.code = "InvalidArgument"
    /\ procs[d].resp.code = "InvalidArgument"

\* C6: on a live record, UpdateService(id, status = "healthy") with name,
\* endpoint and type not supplied succeeds, leaves name, endpoint and type
\* as they were, sets status to "healthy" and makes lastHeartbeat strictly
\* greater than it was.
C6_StatusOnlyUpdate ==
  [][\A c \in Clients :
       ( /\ Completes(c, "UpdateService")
         /\ procs[c].pc = "update_save"
         /\ procs[c].req.status = "healthy"
         /\ procs[c].req.name = "" /\ procs[c].req.endpoint = ""
         /\ procs[c].req.type = SERVICE_TYPE_UNSPECIFIED
         /\ procs[c].id \in DOMAIN store
         /\ store[procs[c].id] = procs[c].cur )
       => /\ procs'[c].resp.code = "OK"
          /\ procs[c].id \in DOMAIN store'
          /\ store'[procs[c].id].name = procs[c].cur.name
          /\ store'[procs[c].id].endpoint = procs[c].cur.endpoint
          /\ store'[procs[c].id].type = procs[c].cur.type
          /\ store'[procs[c].id].status = "healthy"
          /\ store'[procs[c].id].lastHeartbeat > procs[c].cur.lastHeartbeat]_vars

\* C7: UpdateService, UnregisterService and CheckServiceHealth called with a
\* numeric id of no live record fail with NotFound and leave the store
\* unchanged.
C7_MissingIdNotFound ==
  [][\A c \in Clients : \A op \in IdOps :
       ( /\ Begins(c, op)
         /\ ParseInt(procs'[c].req.sid).ok
         /\ ParseInt(procs'[c].req.sid).val \notin DOMAIN store )
       => /\ procs'[c].pc = "done"
          /\ procs'[c].resp.code = "NotFound"
          /\ store' = store]_vars

\* C8: UpdateService, UnregisterService and CheckServiceHealth called with an
\* empty or non-numeric serviceId fail with InvalidArgument, without a store
\* call and without changing a record.
C8_BadIdInvalidArgument ==
  [][\A c \in Clients : \A op \in IdOps :
       ( /\ Begins(c, op)
         /\ procs'[c].req.sid \in { << >>, << "z" >>, << "1", "z" >> } )
       => /\ procs'[c].pc = "done"
          /\ procs'[c].resp.code = "InvalidArgument"
          /\ procs'[c].calls = 0
          /\ store' = store]_vars

C8_Witness ==
  \E c, d \in Clients :
    /\ Done(c, "CheckServiceHealth") /\ procs[c].req.sid = << "1", "z" >>
    /\ procs[c].resp.code = "InvalidArgument"
    /\ Done(d, "UpdateService") /\ procs[d].req.sid = << >>
    /\ procs[d].resp.code = "InvalidArgument"

\* C9: after UnregisterService(id) has succeeded, a second
\* UnregisterService(id) fails with NotFound.
C9_SecondUnregisterNotFound ==
  [][\A c \in Clients :
       ( /\ Begins(c, "UnregisterService")
         /\ ParseInt(procs'[c].req.sid).ok
         /\ ParseInt(procs'[c].req.sid).val \in deleted )
       => /\ procs'[c].pc = "done"
          /\ procs'[c].resp.code = "NotFound"]_vars

C9_Witness ==
  \E c \in Clients :
    /\ Done(c, "UnregisterService")
    /\ procs[c].id \in deleted
    /\ procs[c].resp.code = "NotFound"

\* a row once deleted is not in the table, and no ListServices lists it
DeletedStaysGone ==
  /\ deleted' \cap DOMAIN store' = {}
  /\ \A c \in Clients :
       Completes(c, "ListServices") =>
         \A k \in DOMAIN procs'[c].resp.services :
           \A i \in deleted : procs'[c].resp.services[k].id # FormatInt(i)

\* C10 as claimed: once UnregisterService(id) has succeeded no ListServices
\* contains id, and no later or in-flight UpdateService, UnregisterService
\* or CheckServiceHealth on id succeeds or makes the record visible again.
C10_DeletionTerminal_Claimed ==
  [][/\ DeletedStaysGone
     /\ \A c \in Clients : \A op \in IdOps :
          (Completes(c, op) /\ procs'[c].id \in deleted) =>
            procs'[c].resp.code # "OK"]_vars

\* C10, amended: once UnregisterService(id) has succeeded no ListServices
\* contains id, no later or in-flight UpdateService or UnregisterService on
\* id succeeds or makes the record visible again, and no CheckServiceHealth
\* that looks id up after the delete succeeds (it fails with NotFound); only
\* a CheckServiceHealth that had fetched the record before the delete may
\* still complete.
C10_DeletionTerminal ==
  [][/\ DeletedStaysGone
     /\ \A c \in Clients : \A op \in {"UpdateService", "UnregisterService"} :
          (Completes(c, op) /\ procs'[c].id \in deleted) =>
            procs'[c].resp.code # "OK"
     /\ \A c \in Clients :
          (Begins(c, "CheckServiceHealth") /\ procs'[c].id \in deleted) =>
            (procs'[c].pc = "done" /\ procs'[c].resp.code = "NotFound")]_vars

C10_Witness ==
  \E c \in Clients :
    /\ Done(c, "UpdateService")
    /\ procs[c].calls = 2
    /\ procs[c].id \in deleted
    /\ procs[c].resp.code = "Internal"

ListedIds(services) == [k \in DOMAIN services |-> ParseInt(services[k].id).val]

\* C12: ListServices returns every live record exactly once and no
\* unregistered record, newest creation first: of two records it lists, the
\* one registered later (ids are assigned in order of creation) comes first.
C12_ListNewestFirst ==
  [][\A c \in Clients :
       Completes(c, "ListServices") =>
         LET ids == ListedIds(procs'[c].resp.services)
         IN /\ {ids[k] : k \in DOMAIN ids} = DOMAIN store
            /\ Len(ids) = Cardinality(DOMAIN store)
            /\ \A k \in DOMAIN ids : ids[k] \notin deleted
            /\ \A j, k \in DOMAIN ids : j < k => ids[j] > ids[k]]_vars

\* C13: over the lifetime of a record neither lastHeartbeat nor updatedAt
\* ever decreases, under any sequence and any interleaving of UpdateService
\* calls on the record.
C13_TimestampsMonotonic ==
  [][\A i \in DOMAIN store \cap DOMAIN store' :
       /\ store'[i].lastHeartbeat >= store[i].lastHeartbeat
       /\ store'[i].updatedAt >= store[i].updatedAt]_vars

\* C14: when two UpdateService calls on the same id run concurrently and
\* both succeed, the status, name, endpoint and type of the record are in
\* the end all the values written by the call whose store write was applied
\* last, never a mix of the fields the two calls wrote.
C14_LastWriteWins ==
  \A c, d \in Clients :
    ( /\ c # d
      /\ Done(c, "UpdateService") /\ procs[c].resp.code = "OK"
      /\ Done(d, "UpdateService") /\ procs[d].resp.code = "OK"
      /\ procs[c].id = procs[d].id
      /\ procs[c].peer = d )
    => /\ procs[c].id \in DOMAIN store
       /\ store[procs[c].id].status = procs[d].wrote.status
       /\ store[procs[c].id].name = procs[d].wrote.name
       /\ store[procs[c].id].endpoint = procs[d].wrote.endpoint
       /\ store[procs[c].id].type = procs[d].wrote.type

\* both calls had read the record before either wrote; the first to write
\* renamed the record, and the second wrote something else in every field
\* the first one wrote
C14_Witness ==
  \E c, d \in Clients :
    /\ c # d
    /\ Done(c, "UpdateService") /\ procs[c].resp.code = "OK"
    /\ Done(d, "UpdateService") /\ procs[d].resp.code = "OK"
    /\ procs[c].id = procs[d].id
    /\ procs[c].peer = d
    /\ procs[c].wrote.name # procs[d].wrote.name
    /\ procs[c].wrote.status # procs[d].wrote.status
    /\ procs[c].wrote.endpoint # procs[d].wrote.endpoint
    /\ procs[c].wrote.type # procs[d].wrote.type

\* C15: once the type of a record is a value other than UNSPECIFIED, no
\* UpdateService sets it back to UNSPECIFIED: an UpdateService with type
\* UNSPECIFIED keeps the type the record has.
C15_TypeNeverReset ==
  [][\A i \in DOMAIN store \cap DOMAIN store' :
       store[i].type # "SERVICE_TYPE_UNSPECIFIED" =>
         store'[i].type # "SERVICE_TYPE_UNSPECIFIED"]_vars

\* C16: the store accepts the service type of a RegisterService, whichever
\* of the types it is, and the type round-trips: the type ListServices
\* reports for the new record is the type that was registered.
C16_TypeRoundTrip ==
  [][\A c \in Clients :
       ( /\ Completes(c, "RegisterService")
         /\ procs[c].pc = "register_create"
         /\ ~UniqueConflict(store, 0, procs[c].cur.name, procs[c].cur.endpoint) )
       => /\ procs[c].cur.type \in TypeValues
          /\ \E i \in DOMAIN store' \ DOMAIN store :
               ServiceInfo(store', i).type = procs[c].req.type]_vars

\* C17: CheckServiceHealth on a live record of type HTTP returns a
\* response, never a failure of the call: status "healthy" when the
\* endpoint answers 200, and status "unhealthy" with a non-empty message
\* when it answers another status code or cannot be reached.
C17_HTTPProbeIsData ==
  \A c \in Clients :
    ( /\ Done(c, "CheckServiceHealth")
      /\ procs[c].calls = 1
      /\ procs[c].cur # << >>
      /\ procs[c].cur.type = "SERVICE_TYPE_HTTP" )
    => /\ procs[c].probe \in HTTPOutcomes
       /\ procs[c].resp.code = "OK"
       /\ procs[c].resp.message # ""
       /\ IF procs[c].probe = "200"
            THEN procs[c].resp.status = "healthy"
            ELSE procs[c].resp.status = "unhealthy"

\* one check of an HTTP record has met an answer other than 200, another
\* an endpoint that cannot be reached
C17_Witness ==
  \E c, d \in Clients :
    /\ Done(c, "CheckServiceHealth") /\ Done(d, "CheckServiceHealth")
    /\ procs[c].cur # << >> /\ procs[d].cur # << >>
    /\ procs[c].cur.type = "SERVICE_TYPE_HTTP"
    /\ procs[d].cur.type = "SERVICE_TYPE_HTTP"
    /\ procs[c].probe = "503" /\ procs[d].probe = "unreachable"
    /\ procs[c].resp.status = "unhealthy" /\ procs[d].resp.status = "unhealthy"

\* C18 as claimed: every successful CheckServiceHealth response carries the
\* same fixed confirmation message, whether the derived status is "healthy"
\* or "unhealthy".
C18_FixedMessage_Claimed ==
  \A c \in Clients :
    (Done(c, "CheckServiceHealth") /\ procs[c].resp.code = "OK") =>
      procs[c].resp.message = Checked

\* C18, amended: a successful CheckServiceHealth response has status
\* "healthy" or "unhealthy"; it carries the fixed confirmation message
\* exactly when the status is "healthy", and with status "unhealthy" it
\* carries the message "Service is unreachable: " followed by the cause the
\* probe reported.
C18_FixedMessage ==
  \A c \in Clients :
    (Done(c, "CheckServiceHealth") /\ procs[c].resp.code = "OK") =>
      \/ /\ procs[c].resp.status = "healthy"
         /\ procs[c].resp.message = Checked
         /\ procs[c].resp.args = << >>
      \/ /\ procs[c].resp.status = "unhealthy"
         /\ procs[c].resp.message = Unreachable
         /\ Len(procs[c].resp.args) = 1
         /\ procs[c].resp.args[1] # ""

\* one check has come back healthy and another unhealthy
C18_Witness ==
  \E c, d \in Clients :
    /\ Done(c, "CheckServiceHealth") /\ procs[c].resp.code = "OK"
    /\ Done(d, "CheckServiceHealth") /\ procs[d].resp.code = "OK"
    /\ procs[c].resp.status = "healthy"
    /\ procs[d].resp.status = "unhealthy"

\* C19: GetHealth never fails, whatever the state of the store: when the
\* liveness probe of the store fails it returns status "unhealthy" with the
\* message "Database connection failed", and otherwise status "healthy",
\* also when listing the records or the audit log fails.
C19_GetHealthNeverFails ==
  \A c \in Clients :
    Done(c, "GetHealth") =>
      /\ procs[c].resp.code = "OK"
      /\ IF procs[c].errs[1] # ""
           THEN /\ procs[c].resp.status = "unhealthy"
                /\ procs[c].resp.message = "Database connection failed"
           ELSE procs[c].resp.status = "healthy"

\* one GetHealth has met a store that is down, another a store that
\* answers the probe and then fails the listing
C19_Witness ==
  \E c, d \in Clients :
    /\ Done(c, "GetHealth") /\ procs[c].errs[1] # ""
    /\ procs[c].resp.status = "unhealthy"
    /\ Done(d, "GetHealth") /\ procs[d].errs[1] = "" /\ procs[d].errs[2] # ""
    /\ procs[d].resp.status = "healthy"

AllOps ==
  { "GetHealth", "RegisterService", "UnregisterService", "ListServices",
    "UpdateService", "CheckServiceHealth" }

\* C20 as claimed: whenever one of the six operations returns
\* InvalidArgument, the handler has made no store call, read or write, the
\* "unsupported service type" failure of CheckServiceHealth included.
C20_InvalidArgumentBeforeStore_Claimed ==
  \A c \in Clients : \A op \in AllOps :
    (Done(c, op) /\ procs[c].resp.code = "InvalidArgument") =>
      procs[c].calls = 0

\* C20, amended: whenever one of the six operations returns
\* InvalidArgument, the handler has written nothing to the store, and it
\* has made no store call at all, with one exception: the "Unsupported
\* service type" failure of CheckServiceHealth comes after the one store
\* read that fetched the record, whose type is then UNSPECIFIED.
C20_InvalidArgumentBeforeStore ==
  [][\A c \in Clients : \A op \in AllOps :
       (Completes(c, op) /\ procs'[c].resp.code = "InvalidArgument") =>
         /\ store' = store
         /\ \/ procs'[c].calls = 0
            \/ /\ op = "CheckServiceHealth"
               /\ procs'[c].resp.message = "Unsupported service type"
               /\ procs'[c].calls = 1
               /\ procs'[c].id \in DOMAIN store
               /\ procs'[c].cur = store[procs'[c].id]
               /\ procs'[c].cur.type = "SERVICE_TYPE_UNSPECIFIED"]_vars

\* a CheckServiceHealth has fetched a record of type UNSPECIFIED and failed
\* on its type
C20_Witness ==
  \E c \in Clients :
    /\ Done(c, "CheckServiceHealth")
    /\ procs[c].resp.code = "InvalidArgument"
    /\ procs[c].resp.message = "Unsupported service type"
    /\ procs[c].calls = 1
    /\ procs[c].cur.type = "SERVICE_TYPE_UNSPECIFIED"

\* C21: UnregisterService, UpdateService and CheckServiceHealth accept only
\* a serviceId that parses as a positive integer: one that parses as zero
\* or as a negative integer is rejected with InvalidArgument and is not
\* looked up in the store.
C21_NonPositiveIdRejected ==
  [][\A c \in Clients : \A op \in IdOps :
       ( /\ Begins(c, op)
         /\ ParseInt(procs'[c].req.sid).ok
         /\ ParseInt(procs'[c].req.sid).val <= 0 )
       => /\ procs'[c].pc = "done"
          /\ procs'[c].resp.code = "InvalidArgument"
          /\ procs'[c].calls = 0]_vars

\* C22: in UnregisterService, UpdateService and CheckServiceHealth a call
\* that failed on a store error reports NotFound exactly when the store
\* error was a not-found, and Internal exactly when it was any other error
\* (the store being unreachable, a constraint).
C22_StoreErrorsClassified ==
  \A c \in Clients : \A op \in IdOps :
    ( /\ Done(c, op)
      /\ procs[c].errs # << >>
      /\ procs[c].errs[Len(procs[c].errs)] # "" )
    => LET e == procs[c].errs[Len(procs[c].errs)]
       IN /\ IsNotFound(e) => procs[c].resp.code = "NotFound"
          /\ ~IsNotFound(e) => procs[c].resp.code = "Internal"

\* the step is one of the handler of operation op, for some client
StepOf(ops) ==
  \E c \in Clients : procs'[c] # procs[c] /\ procs'[c].op \in ops

\* C23: the id and the createdAt of a record never change after creation: a
\* step of UpdateService, CheckServiceHealth, ListServices or GetHealth
\* leaves the set of ids as it is, and no step at all changes the createdAt
\* of a record that stays in the store.
C23_IdAndCreatedAtImmutable ==
  [][ /\ \A i \in DOMAIN store \cap DOMAIN store' :
           store'[i].createdAt = store[i].createdAt
      /\ StepOf({"UpdateService", "CheckServiceHealth", "ListServices",
                 "GetHealth"})
           => DOMAIN store' = DOMAIN store ]_vars

\* an update written at a later second than the creation of the record
C23_Witness ==
  \E c \in Clients :
    /\ Done(c, "UpdateService")
    /\ procs[c].resp.code = "OK"
    /\ procs[c].id \in DOMAIN store
    /\ store[procs[c].id].updatedAt = 1
    /\ store[procs[c].id].createdAt = 0

\* the types CheckServiceHealth has an arm for
C24_HandledTypes ==
  {"SERVICE_TYPE_HTTP", "SERVICE_TYPE_SYSTEMD", "SERVICE_TYPE_GRPC"} \cup StubTypes

\* C24: CheckServiceHealth on a live record whose type has no arm (as
\* UNSPECIFIED) fails with InvalidArgument and runs no probe; on a record
\* of type GRPC or of one of the seven stub types it answers "healthy"
\* without a probe, whatever the endpoint.
C24_DispatchOnType ==
  \A c \in Clients :
    (Done(c, "CheckServiceHealth") /\ procs[c].cur # << >>)
    => /\ procs[c].cur.type \notin C24_HandledTypes
            => /\ procs[c].resp.code = "InvalidArgument"
               /\ procs[c].probe = ""
       /\ procs[c].cur.type \in {"SERVICE_TYPE_GRPC"} \cup StubTypes
            => /\ procs[c].resp.code = "OK"
               /\ procs[c].resp.status = "healthy"
               /\ procs[c].probe = ""

\* a gRPC record and a stub record at the two endpoints were checked
C24_Witness ==
  /\ Done("c1", "CheckServiceHealth")
  /\ procs["c1"].cur # << >>
  /\ procs["c1"].cur.type = "SERVICE_TYPE_GRPC"
  /\ procs["c1"].cur.endpoint = "y"
  /\ procs["c1"].resp.status = "healthy"
  /\ Done("c2", "CheckServiceHealth")
  /\ procs["c2"].cur # << >>
  /\ procs["c2"].cur.type = "SERVICE_TYPE_DATABASE"
  /\ procs["c2"].cur.endpoint = "x"
  /\ procs["c2"].resp.status = "healthy"

\* C25: a successful UpdateService writes, for each of name, endpoint and
\* type, the value of the request when the request supplies one (a
\* non-empty string, a type other than UNSPECIFIED) and the value it
\* fetched from the store otherwise; no field is written empty.
C25_OverrideWherePresent ==
  \A c \in Clients :
    (Done(c, "UpdateService") /\ procs[c].resp.code = "OK")
    => LET p == procs[c]
       IN /\ p.wrote.name = IF p.req.name # "" THEN p.req.name ELSE p.cur.name
          /\ p.wrote.endpoint =
               IF p.req.endpoint # "" THEN p.req.endpoint ELSE p.cur.endpoint
          /\ p.wrote.type =
               IF p.req.type # SERVICE_TYPE_UNSPECIFIED
                 THEN apiToEntServiceType(p.req.type) ELSE p.cur.type
          /\ p.wrote.name # "" /\ p.wrote.endpoint # "" /\ p.wrote.type # ""

\* C26: whenever GetHealth answers "healthy", the count in its message is
\* the number of live records in the store at the time of the call, also
\* when a store call of the handler fails.
C26_HealthyCountIsStoreSize ==
  [][\A c \in Clients :
       (Completes(c, "GetHealth") /\ procs'[c].resp.status = "healthy")
       => procs'[c].resp.args = << FormatInt(Cardinality(DOMAIN store)) >>]_vars

\* C27: the step in which an UpdateService that supplies neither name nor
\* endpoint completes leaves the stored name and endpoint of its record as
\* they are, also when another UpdateService renamed the record after this
\* one had fetched it.
C27_StatusOnlyKeepsName ==
  [][\A c \in Clients :
       ( /\ Completes(c, "UpdateService")
         /\ procs'[c].req.name = "" /\ procs'[c].req.endpoint = ""
         /\ procs'[c].id \in DOMAIN store \cap DOMAIN store' )
       => /\ store'[procs'[c].id].name = store[procs'[c].id].name
          /\ store'[procs'[c].id].endpoint = store[procs'[c].id].endpoint]_vars

\* the name and endpoint the save of client c is about to write
C28_Pair(c) ==
  [name |-> IF procs[c].req.name # "" THEN procs[c].req.name
            ELSE procs[c].cur.name,
   endpoint |-> IF procs[c].req.endpoint # "" THEN procs[c].req.endpoint
                ELSE procs[c].cur.endpoint]

\* C28: an UpdateService whose save would give its record the name and
\* the endpoint of another live record fails with Internal, and the save
\* leaves every record as it was, the status and lastHeartbeat of the
\* record being updated included.
C28_ConflictingUpdateFails ==
  [][\A c \in Clients :
       ( /\ procs[c].pc = "update_save"
         /\ Completes(c, "UpdateService")
         /\ procs[c].id \in DOMAIN store
         /\ \E j \in DOMAIN store \ {procs[c].id} :
              /\ store[j].name = C28_Pair(c).name
              /\ store[j].endpoint = C28_Pair(c).endpoint )
       => /\ procs'[c].resp.code = "Internal"
          /\ store' = store]_vars

\* the save of a rename to the pair of another record was refused by the
\* unique index, and the record still has its first status and heartbeat
C28_Witness ==
  \E c \in Clients :
    /\ Done(c, "UpdateService")
    /\ procs[c].resp.code = "Internal"
    /\ Len(procs[c].errs) = 2
    /\ procs[c].errs[2] = "ent: constraint failed"
    /\ procs[c].id \in DOMAIN store
    /\ store[procs[c].id].status = "active"
    /\ store[procs[c].id].lastHeartbeat = 0
    /\ store[procs[c].id].updatedAt = 0

C29_WritingOps == {"RegisterService", "UpdateService", "UnregisterService"}

\* C29: a RegisterService, UpdateService or UnregisterService call that
\* returns a failure leaves the store as it was: the only step of such a
\* handler that changes the store is the one that returns success.
C29_FailedCallLeavesStore ==
  [][\A c \in Clients :
       ( /\ procs'[c] # procs[c]
         /\ procs'[c].op \in C29_WritingOps
         /\ ~(procs'[c].pc = "done" /\ procs'[c].resp.code = "OK") )
       => store' = store]_vars

\* a registration of a pair no record holds has failed, an update has
\* failed after its store calls, and the table is the initial one
C29_Witness ==
  \E c, d \in Clients :
    /\ Done(c, "RegisterService")
    /\ procs[c].resp.code = "Internal"
    /\ procs[c].fresh
    /\ Done(d, "UpdateService")
    /\ procs[d].resp.code = "Internal"
    /\ procs[d].calls = 2
    /\ store = [i \in 1..NumInit |-> InitRow(i)]

C30_ReadingOps == {"CheckServiceHealth", "ListServices", "GetHealth"}

\* C30: CheckServiceHealth, ListServices and GetHealth are read-only: no
\* step of one of these handlers changes the store, so the result of a
\* probe is returned to the caller and not written to the record.
C30_ReadOnly ==
  [][(\E c \in Clients :
        procs'[c] # procs[c] /\ procs'[c].op \in C30_ReadingOps)
     => store' = store]_vars

\* a probe has found a record unhealthy at a later second than the
\* record's heartbeat, and the record still has its status and heartbeat
C30_Witness ==
  \E c \in Clients :
    /\ Done(c, "CheckServiceHealth")
    /\ procs[c].probe \in {"503", "unreachable"}
    /\ procs[c].resp.status = "unhealthy"
    /\ now = 1
    /\ procs[c].id \in DOMAIN store
    /\ store[procs[c].id].status = "active"
    /\ store[procs[c].id].lastHeartbeat = 0
====
